---- MODULE Spec2Model ----
(***************************************************************************)
(* Model of the real-time delivery engine of backend/socket_manager.py:    *)
(* the presence registry (connected_users, session_users), the messages    *)
(* collection and the Socket.IO handlers connect, disconnect, send_message *)
(* and mark_as_read, with the REST routes of backend/routes/messages.py    *)
(* that write to the same collection.                                      *)
(*                                                                         *)
(* The handlers are asyncio coroutines.  A handler runs without            *)
(* interruption between two await expressions, and any other handler may   *)
(* run while it is suspended in one.  Every action below is therefore one  *)
(* such atomic piece: the code from a resumption up to and including the   *)
(* call of the next awaited operation (a store operation or an emit),      *)
(* whose effect is taken at the call.  The awaits of log_activity change   *)
(* nothing that is modelled (activity.py swallows its own errors), so      *)
(* they are folded into the piece that follows them.                       *)
(***************************************************************************)
EXTENDS Integers, Sequences, FiniteSets, TLC

\* ------------------------------------------------------------------ bounds
MaxSids == 3
MaxSends == 1
MaxActive == 2
MaxRefused == 1
MaxFaults == 1
MaxTyping == 1
MaxIgnored == 1
MaxQueries == 1
MaxRest == 1

\* --------------------------------------------------------------- constants
Users == {"a", "b"}
BOT_EMAIL == "bot"
Sids == 1..MaxSids
TaskIds == 1..MaxActive
BadToken == "bad"
Missing == "missing"
None == "none"
Contents == {"hi"}
BotResponse == "reply"

VARIABLES
    sess,             \* transport state of each session id: fresh, open, closed
    connected_users,  \* dict user_email -> set of session ids
    session_users,    \* dict session id -> user_email
    db,               \* the messages collection; a message's id is its index
    emitted,          \* per session id (room), the events emitted to it, in order
    tasks,            \* the handler invocations that have not returned, with their locals
    hist,             \* per message, what its delivery did (history, read by no handler)
    refused,          \* the mark_as_read calls <<user, id>> made for a message that does
                      \* not exist or is addressed to someone else (history)
    faults,           \* the awaited calls that have raised (history)
    ignored,          \* the events <<name, session id>> handled for a session id
                      \* that is bound to no identity (history)
    rest              \* the calls of the REST message routes that have reached
                      \* the store, in order (history)

vars == <<sess, connected_users, session_users, db, emitted, tasks, hist, refused,
          faults, ignored, rest>>

\* ----------------------------------------------------------------- helpers
Put(f, k, v) == [x \in DOMAIN f \cup {k} |-> IF x = k THEN v ELSE f[x]]

DelNothing(f, k) == f

Del(f, k) == [x \in DOMAIN f \ {k} |-> f[x]]

Rank(status) == CASE status = "Sent" -> 0 [] status = "Delivered" -> 1 [] status = "Read" -> 2

\* An emitted event: its name, the message_id and the status of its payload (0
\* and none where it has none) and arg: the email of connected, the read_by of
\* message_read, the message of error.
Event(ev, mid, status, arg) == [ev |-> ev, mid |-> mid, status |-> status, arg |-> arg]

\* sio.emit(..., room=sid) reaches the one session sid.
EmitBroadcast(em, sid, e) == [x \in DOMAIN em |-> Append(em[x], e)]

Emit(em, sid, e) == [em EXCEPT ![sid] = Append(@, e)]

\* ------------------------------------------------------ set iteration
\* `for x in connected_users[u]: await sio.emit(...)` iterates over the live set
\* object.  CPython's set iterator remembers the size of the set at its creation
\* and raises RuntimeError on the next step when the size differs; with the size
\* unchanged it goes on over the table, where an element added meanwhile lies
\* either ahead of the cursor or behind it.  stale: the set object was emptied
\* and unbound from the dict (its size is 0 from then on).
NoIter == [of |-> None, stale |-> FALSE, used |-> 0, ahead |-> {}, known |-> {}]

IterNew(u, set) == [of |-> u, stale |-> FALSE, used |-> Cardinality(set), ahead |-> set, known |-> set]

IterOutcomes(it, cur) ==
    IF it.stale \/ Cardinality(cur) # it.used
    THEN {[res |-> "raise", sid |-> 0, it |-> NoIter]}
    ELSE LET new == cur \ it.known IN
         UNION { LET ahead == (it.ahead \cap cur) \cup A IN
                 IF ahead = {}
                 THEN {[res |-> "stop", sid |-> 0, it |-> NoIter]}
                 ELSE {[res |-> "yield", sid |-> x,
                        it |-> [it EXCEPT !.ahead = ahead \ {x}, !.known = it.known \cup new]]
                       : x \in ahead}
               : A \in SUBSET new }

SetOf(cu, u) == IF u \in DOMAIN cu THEN cu[u] ELSE {}

\* ---------------------------------------------------------------- registry
RegAddNothing(cu, u, s) == cu

RegAdd(cu, u, s) ==
    IF u \in DOMAIN cu THEN [cu EXCEPT ![u] = @ \cup {s}] ELSE Put(cu, u, {s})

RegRemoveKeepsKey(cu, u, s) ==
    IF u \in DOMAIN cu THEN [cu EXCEPT ![u] = @ \ {s}] ELSE cu

RegRemove(cu, u, s) ==
    IF u \in DOMAIN cu
    THEN IF cu[u] \ {s} = {} THEN Del(cu, u) ELSE [cu EXCEPT ![u] = @ \ {s}]
    ELSE cu

\* The iterators of the suspended fan-outs over u's set, once that set object
\* has been emptied and deleted from the dict.
Unbind(ts, u) ==
    [i \in DOMAIN ts |-> IF ts[i].it.of = u THEN [ts[i] EXCEPT !.it.stale = TRUE] ELSE ts[i]]

\* ------------------------------------------------------------ task records
Idle ==
    [kind |-> "idle", pc |-> "idle", sid |-> 0, user |-> None, rcpt |-> None,
     mid |-> 0, bot_mid |-> 0, modified |-> 0, it |-> NoIter]

Running(t, kind, pc) == tasks[t].kind = kind /\ tasks[t].pc = pc

\* A new invocation takes the first free slot.
FreeSlot(t) == tasks[t] = Idle /\ \A x \in TaskIds : x < t => tasks[x] # Idle

SetTask(t, r) == [tasks EXCEPT ![t] = r]

\* The payload of send_message: the fields the handler reads, either of which
\* may be missing, and a sender field, which a client is free to add.
Payloads ==
    [recipient : Users \cup {BOT_EMAIL, Missing}, content : Contents \cup {Missing}, sender : Users]

\* The history of a message: whether its delivery has reached the liveness
\* check (checked) and the sessions its recipient had there (snap), how the
\* handler that delivers it ended (outcome), the number of mark_as_read calls
\* that modified it (marks) and the id of the bot's reply to it (reply).
NoHist == [checked |-> FALSE, snap |-> {}, outcome |-> "running", marks |-> 0, reply |-> 0]

Checked(h, mid, set) == [h EXCEPT ![mid].checked = TRUE, ![mid].snap = set]

Init ==
    /\ sess = [s \in Sids |-> "fresh"]
    /\ connected_users = <<>>
    /\ session_users = <<>>
    /\ db = <<>>
    /\ emitted = [s \in Sids |-> <<>>]
    /\ tasks = [t \in TaskIds |-> Idle]
    /\ hist = <<>>
    /\ refused = {}
    /\ faults = {}
    /\ ignored = {}
    /\ rest = <<>>

\* connect(sid, environ, auth): a missing or invalid token refuses the connection.
\* Session ids are fresh unique values: the next one is the least unused.
Connect(s, tok) ==
    /\ sess[s] = "fresh"
    /\ \A x \in Sids : x < s => sess[x] # "fresh"
    /\ IF tok = BadToken
       THEN /\ sess' = [sess EXCEPT ![s] = "closed"]
            /\ UNCHANGED <<connected_users, session_users, emitted>>
       ELSE /\ sess' = [sess EXCEPT ![s] = "open"]
            /\ session_users' = Put(session_users, s, tok)
            /\ connected_users' = RegAdd(connected_users, tok, s)
            /\ emitted' = Emit(emitted, s, Event("connected", 0, None, tok))
    /\ UNCHANGED <<db, tasks, hist, refused, faults, ignored, rest>>

\* disconnect(sid)
Disconnect(s) ==
    /\ sess[s] = "open"
    /\ sess' = [sess EXCEPT ![s] = "closed"]
    /\ IF s \in DOMAIN session_users
       THEN LET u == session_users[s] IN
            /\ connected_users' = RegRemove(connected_users, u, s)
            /\ session_users' = Del(session_users, s)
            /\ tasks' = IF u \in DOMAIN connected_users /\ connected_users[u] \ {s} = {}
                        THEN Unbind(tasks, u) ELSE tasks
       ELSE UNCHANGED <<connected_users, session_users, tasks>>
    /\ UNCHANGED <<db, emitted, hist, refused, faults, ignored, rest>>

\* ------------------------------------------------------------- the store
\* message_dict of send_message: a new message is stored with status Sent.
NewMessageDelivered(sender, recipient, content, is_bot) ==
    [sender |-> sender, recipient |-> recipient, content |-> content,
     is_bot_response |-> is_bot, status |-> "Delivered"]

NewMessage(sender, recipient, content, is_bot) ==
    [sender |-> sender, recipient |-> recipient, content |-> content,
     is_bot_response |-> is_bot, status |-> "Sent"]

\* update_one({"_id": id}, {"$set": {"status": st}})
SetStatusDropsContent(d, mid, st) == [d EXCEPT ![mid].status = st, ![mid].content = Missing]

SetStatus(d, mid, st) == [d EXCEPT ![mid].status = st]

\* The branch taken at the liveness check of send_message.
RouteOfflineAsBot(cu, rcpt) ==
    IF rcpt \in DOMAIN cu THEN "online" ELSE "bot"

RouteBotAsOffline(cu, rcpt) ==
    IF rcpt \in DOMAIN cu THEN "online" ELSE "offline"

Route(cu, rcpt) ==
    IF rcpt \in DOMAIN cu THEN "online"
    ELSE IF rcpt = BOT_EMAIL THEN "bot" ELSE "offline"

\* The send_message calls made so far: those that stored a message and those
\* refused at the entry.
Rejections == {"Unauthorized", "Invalid message data"}

RejectedAt(s) ==
    {i \in 1..Len(emitted[s]) : emitted[s][i].ev = "error" /\ emitted[s][i].arg \in Rejections}

SendCount ==
    Cardinality({m \in 1..Len(db) : ~db[m].is_bot_response})
    + Cardinality(UNION {{<<s, i>> : i \in RejectedAt(s)} : s \in Sids})

\* ------------------------------------------------------------ send_message
\* The validation of the payload: both fields must be present.
MalformedNever(data) == FALSE

Malformed(data) == data.recipient = Missing \/ data.content = Missing

\* The sender of a message: the identity bound to the session.
SenderFromPayload(su, s, data) == data.sender

SenderOf(su, s, data) == su[s]

\* Entry: the session check, the payload check and the insert of the message.
\* Inputs: a user writes to another identity than their own.
SendStart(t, s, data) ==
    /\ FreeSlot(t)
    /\ sess[s] # "fresh"
    /\ SendCount < MaxSends
    /\ IF s \notin DOMAIN session_users
       THEN /\ emitted' = Emit(emitted, s, Event("error", 0, None, "Unauthorized"))
            /\ UNCHANGED <<db, tasks, hist>>
       ELSE IF Malformed(data)
       THEN /\ emitted' = Emit(emitted, s, Event("error", 0, None, "Invalid message data"))
            /\ UNCHANGED <<db, tasks, hist>>
       ELSE LET u == SenderOf(session_users, s, data) IN
            /\ u # data.recipient
            /\ db' = Append(db, NewMessage(u, data.recipient, data.content, FALSE))
            /\ hist' = Append(hist, NoHist)
            /\ tasks' = SetTask(t, [Idle EXCEPT !.kind = "send", !.pc = "inserted", !.sid = s,
                                      !.user = u, !.rcpt = data.recipient, !.mid = Len(db) + 1])
            /\ UNCHANGED emitted
    /\ UNCHANGED <<sess, connected_users, session_users, refused, faults, ignored, rest>>

\* The message_sent confirmation, to the sending session only.
SendConfirmWhenOnline(t) ==
    /\ Running(t, "send", "inserted")
    /\ tasks[t].rcpt \in DOMAIN connected_users
    /\ emitted' = Emit(emitted, tasks[t].sid, Event("message_sent", tasks[t].mid, "Sent", None))
    /\ tasks' = SetTask(t, [tasks[t] EXCEPT !.pc = "confirmed"])
    /\ UNCHANGED <<sess, connected_users, session_users, db, hist, refused, faults, ignored, rest>>

SendConfirm(t) ==
    /\ Running(t, "send", "inserted")
    /\ emitted' = Emit(emitted, tasks[t].sid, Event("message_sent", tasks[t].mid, "Sent", None))
    /\ tasks' = SetTask(t, [tasks[t] EXCEPT !.pc = "confirmed"])
    /\ UNCHANGED <<sess, connected_users, session_users, db, hist, refused, faults, ignored, rest>>

\* The liveness check and what follows it up to the next await.
SendRoute(t) ==
    /\ Running(t, "send", "confirmed")
    /\ LET r == tasks[t]
           route == Route(connected_users, r.rcpt) IN
       CASE route = "online" ->
              LET set == connected_users[r.rcpt] IN
              \E x \in set :
                /\ emitted' = Emit(emitted, x, Event("new_message", r.mid, "Delivered", None))
                /\ tasks' = SetTask(t, [r EXCEPT !.pc = "fanout",
                                          !.it = [IterNew(r.rcpt, set) EXCEPT !.ahead = set \ {x}]])
                /\ hist' = Checked(hist, r.mid, set)
                /\ UNCHANGED db
         [] route = "bot" ->
              /\ db' = SetStatus(db, r.mid, "Delivered")
              /\ tasks' = SetTask(t, [r EXCEPT !.pc = "delivered"])
              /\ hist' = Checked(hist, r.mid, {})
              /\ UNCHANGED emitted
         [] route = "offline" ->
              /\ tasks' = SetTask(t, Idle)
              /\ hist' = [Checked(hist, r.mid, {}) EXCEPT ![r.mid].outcome = "done"]
              /\ UNCHANGED <<db, emitted>>
    /\ UNCHANGED <<sess, connected_users, session_users, refused, faults, ignored, rest>>

\* The next turn of the new_message loop; after the loop, the status update.
SendFanNext(t) ==
    /\ Running(t, "send", "fanout")
    /\ LET r == tasks[t] IN
       \E o \in IterOutcomes(r.it, SetOf(connected_users, r.rcpt)) :
         CASE o.res = "yield" ->
                /\ emitted' = Emit(emitted, o.sid, Event("new_message", r.mid, "Delivered", None))
                /\ tasks' = SetTask(t, [r EXCEPT !.it = o.it])
                /\ UNCHANGED <<db, hist>>
           [] o.res = "stop" ->
                /\ db' = SetStatus(db, r.mid, "Delivered")
                /\ tasks' = SetTask(t, [r EXCEPT !.pc = "delivered", !.it = NoIter])
                /\ UNCHANGED <<emitted, hist>>
           [] o.res = "raise" ->
                /\ emitted' = Emit(emitted, r.sid, Event("error", 0, None, "Failed to send message"))
                /\ tasks' = SetTask(t, Idle)
                /\ hist' = [hist EXCEPT ![r.mid].outcome = "failed"]
                /\ UNCHANGED db
    /\ UNCHANGED <<sess, connected_users, session_users, refused, faults, ignored, rest>>

\* The message_delivered notification to the sending session.
SendNotifyDelivered(t) ==
    /\ Running(t, "send", "delivered")
    /\ emitted' = Emit(emitted, tasks[t].sid, Event("message_delivered", tasks[t].mid, "Delivered", None))
    /\ IF tasks[t].rcpt = BOT_EMAIL
       THEN /\ tasks' = SetTask(t, [tasks[t] EXCEPT !.pc = "notified"])
            /\ UNCHANGED hist
       ELSE /\ tasks' = SetTask(t, Idle)
            /\ hist' = [hist EXCEPT ![tasks[t].mid].outcome = "done"]
    /\ UNCHANGED <<sess, connected_users, session_users, db, refused, faults, ignored, rest>>

\* To the bot: the reply is computed and the user's message is marked Read.
SendBotRead(t) ==
    /\ Running(t, "send", "notified")
    /\ db' = SetStatus(db, tasks[t].mid, "Read")
    /\ tasks' = SetTask(t, [tasks[t] EXCEPT !.pc = "bot_read"])
    /\ UNCHANGED <<sess, connected_users, session_users, emitted, hist, refused, faults, ignored, rest>>

SendBotReadNotify(t) ==
    /\ Running(t, "send", "bot_read")
    /\ emitted' = Emit(emitted, tasks[t].sid, Event("message_read", tasks[t].mid, "Read", None))
    /\ tasks' = SetTask(t, [tasks[t] EXCEPT !.pc = "bot_read_notified"])
    /\ UNCHANGED <<sess, connected_users, session_users, db, hist, refused, faults, ignored, rest>>

\* The bot's reply is stored.
BotMessageSwapped(user) == NewMessage(user, BOT_EMAIL, BotResponse, TRUE)

BotMessage(user) == NewMessage(BOT_EMAIL, user, BotResponse, TRUE)

SendBotInsert(t) ==
    /\ Running(t, "send", "bot_read_notified")
    /\ db' = Append(db, BotMessage(tasks[t].user))
    /\ hist' = Append([hist EXCEPT ![tasks[t].mid].reply = Len(db) + 1], NoHist)
    /\ tasks' = SetTask(t, [tasks[t] EXCEPT !.pc = "bot_inserted", !.bot_mid = Len(db) + 1])
    /\ UNCHANGED <<sess, connected_users, session_users, emitted, refused, faults, ignored, rest>>

\* The handler of message mid has returned: both it and its reply are settled.
Settle(h, mid, bot_mid, outcome) ==
    [h EXCEPT ![mid].outcome = outcome, ![bot_mid].outcome = outcome]

\* The reply goes to the sessions of the user, if any.
SendBotRoute(t) ==
    /\ Running(t, "send", "bot_inserted")
    /\ LET r == tasks[t] IN
       IF r.user \in DOMAIN connected_users
       THEN LET set == connected_users[r.user] IN
            \E x \in set :
              /\ emitted' = Emit(emitted, x, Event("new_message", r.bot_mid, "Delivered", None))
              /\ tasks' = SetTask(t, [r EXCEPT !.pc = "bot_fanout",
                                        !.it = [IterNew(r.user, set) EXCEPT !.ahead = set \ {x}]])
              /\ hist' = Checked(hist, r.bot_mid, set)
       ELSE /\ tasks' = SetTask(t, Idle)
            /\ hist' = Settle(Checked(hist, r.bot_mid, {}), r.mid, r.bot_mid, "done")
            /\ UNCHANGED emitted
    /\ UNCHANGED <<sess, connected_users, session_users, db, refused, faults, ignored, rest>>

\* The status the reply is given once it has been emitted.
BotReplyFinalStatus == "Read"

SendBotFanNext(t) ==
    /\ Running(t, "send", "bot_fanout")
    /\ LET r == tasks[t] IN
       \E o \in IterOutcomes(r.it, SetOf(connected_users, r.user)) :
         CASE o.res = "yield" ->
                /\ emitted' = Emit(emitted, o.sid, Event("new_message", r.bot_mid, "Delivered", None))
                /\ tasks' = SetTask(t, [r EXCEPT !.it = o.it])
                /\ UNCHANGED <<db, hist>>
           [] o.res = "stop" ->
                /\ db' = SetStatus(db, r.bot_mid, BotReplyFinalStatus)
                /\ tasks' = SetTask(t, Idle)
                /\ hist' = Settle(hist, r.mid, r.bot_mid, "done")
                /\ UNCHANGED emitted
           [] o.res = "raise" ->
                /\ emitted' = Emit(emitted, r.sid, Event("error", 0, None, "Failed to send message"))
                /\ tasks' = SetTask(t, Idle)
                /\ hist' = Settle(hist, r.mid, r.bot_mid, "failed")
                /\ UNCHANGED db
    /\ UNCHANGED <<sess, connected_users, session_users, refused, faults, ignored, rest>>

\* ------------------------------------------------------------ mark_as_read
\* The filter of the conditional update: the id and the recipient.
MarkMatchesAnyRecipient(d, mid, user) == mid \in 1..Len(d)

MarkMatches(d, mid, user) == mid \in 1..Len(d) /\ d[mid].recipient = user

\* modified_count: the store counts a document whose value changed.
Modified(d, mid, user) == IF MarkMatches(d, mid, user) /\ d[mid].status # "Read" THEN 1 ELSE 0

\* A well-formed id that no message ever gets (a send stores at most two).
UnknownId == 2 * MaxSends + 1

\* Entry: the checks and the conditional update.  A call without a session, without
\* a message_id or with an id that is no ObjectId returns before any await and
\* leaves nothing behind: mid ranges over the well-formed ids.  A call whose
\* update modifies nothing only returns after it, so it is over with the update;
\* refused records such calls made for a message that does not exist or by a
\* user who is not its recipient.
MarkStart(t, s, mid) ==
    /\ FreeSlot(t)
    /\ s \in DOMAIN session_users
    /\ LET u == session_users[s]
           n == Modified(db, mid, u) IN
       /\ db' = IF MarkMatches(db, mid, u) THEN SetStatus(db, mid, "Read") ELSE db
       /\ hist' = IF n > 0 THEN [hist EXCEPT ![mid].marks = @ + 1] ELSE hist
       /\ tasks' = IF n > 0
                   THEN SetTask(t, [Idle EXCEPT !.kind = "mark", !.pc = "mark_updated", !.sid = s,
                                      !.user = u, !.mid = mid, !.modified = n])
                   ELSE tasks
       /\ IF mid \in 1..Len(db) /\ db[mid].recipient = u
          THEN UNCHANGED refused
          ELSE /\ Cardinality(refused \cup {<<u, mid>>}) <= MaxRefused
               /\ refused' = refused \cup {<<u, mid>>}
    /\ UNCHANGED <<sess, connected_users, session_users, emitted, faults, ignored, rest>>

\* After the update: if it modified the message, the message is read back and
\* its sender notified.
MarkRoute(t) ==
    /\ Running(t, "mark", "mark_updated")
    /\ LET r == tasks[t] IN
       IF db[r.mid].sender \in DOMAIN connected_users
       THEN LET sender == db[r.mid].sender
                set == connected_users[sender] IN
            \E x \in set :
              /\ emitted' = Emit(emitted, x, Event("message_read", r.mid, "Read", r.user))
              /\ tasks' = SetTask(t, [r EXCEPT !.pc = "mark_fanout",
                                        !.it = [IterNew(sender, set) EXCEPT !.ahead = set \ {x}]])
       ELSE /\ tasks' = SetTask(t, Idle)
            /\ UNCHANGED emitted
    /\ UNCHANGED <<sess, connected_users, session_users, db, hist, refused, faults, ignored, rest>>

MarkFanNext(t) ==
    /\ Running(t, "mark", "mark_fanout")
    /\ LET r == tasks[t] IN
       \E o \in IterOutcomes(r.it, SetOf(connected_users, db[r.mid].sender)) :
         CASE o.res = "yield" ->
                /\ emitted' = Emit(emitted, o.sid, Event("message_read", r.mid, "Read", r.user))
                /\ tasks' = SetTask(t, [r EXCEPT !.it = o.it])
           [] o.res = "stop" ->
                /\ tasks' = SetTask(t, Idle)
                /\ UNCHANGED emitted
           [] o.res = "raise" ->
                /\ tasks' = SetTask(t, Idle)
                /\ UNCHANGED emitted
    /\ UNCHANGED <<sess, connected_users, session_users, db, hist, refused, faults, ignored, rest>>

Next ==
    \/ \E s \in Sids, tok \in Users \cup {BadToken} : Connect(s, tok)
    \/ \E s \in Sids : Disconnect(s)
    \/ \E t \in TaskIds, s \in Sids, data \in Payloads : SendStart(t, s, data)
    \/ \E t \in TaskIds : SendConfirm(t)
    \/ \E t \in TaskIds : SendRoute(t)
    \/ \E t \in TaskIds : SendFanNext(t)
    \/ \E t \in TaskIds : SendNotifyDelivered(t)
    \/ \E t \in TaskIds : SendBotRead(t)
    \/ \E t \in TaskIds : SendBotReadNotify(t)
    \/ \E t \in TaskIds : SendBotInsert(t)
    \/ \E t \in TaskIds : SendBotRoute(t)
    \/ \E t \in TaskIds : SendBotFanNext(t)
    \/ \E t \in TaskIds, s \in Sids, mid \in (1..Len(db)) \cup {UnknownId} : MarkStart(t, s, mid)
    \/ \E t \in TaskIds : MarkRoute(t)
    \/ \E t \in TaskIds : MarkFanNext(t)

Spec == Init /\ [][Next]_vars

\* ---------------------------------------------------------------- failures
\* An awaited call may raise instead of returning: a store operation (the store
\* is unreachable) or an emit (the transport of the session is broken).  The
\* handlers have one try block each around their whole body.
Fault(op, mid, sid, rcpt) == [op |-> op, mid |-> mid, sid |-> sid, rcpt |-> rcpt]

CanFail == Cardinality(faults) < MaxFaults

\* The except clause of send_message: an error event to the sending session.
FailedSilently(em, sid) == em

Failed(em, sid) == Emit(em, sid, Event("error", 0, None, "Failed to send message"))

\* The handler of task t has ended in its except clause.
Aborted(h, r) ==
    IF r.bot_mid # 0 THEN Settle(h, r.mid, r.bot_mid, "failed")
    ELSE [h EXCEPT ![r.mid].outcome = "failed"]

\* send_message: insert_one of the message raises.
SendInsertFails(s, data) ==
    /\ CanFail
    /\ SendCount < MaxSends
    /\ s \in DOMAIN session_users
    /\ data.recipient # Missing /\ data.content # Missing
    /\ session_users[s] # data.recipient
    /\ emitted' = Failed(emitted, s)
    /\ faults' = faults \cup {Fault("insert", 0, s, data.recipient)}
    /\ UNCHANGED <<sess, connected_users, session_users, db, tasks, hist, refused, ignored, rest>>

\* The sessions the new_message loop of task t may emit to next.
FanTargets(r) ==
    IF r.pc = "confirmed" /\ Route(connected_users, r.rcpt) = "online"
    THEN connected_users[r.rcpt]
    ELSE IF r.pc = "fanout"
    THEN {o.sid : o \in {y \in IterOutcomes(r.it, SetOf(connected_users, r.rcpt)) : y.res = "yield"}}
    ELSE {}

\* send_message: an emit of new_message in the loop over the recipient's sessions raises.
SendFanEmitFails(t) ==
    /\ CanFail
    /\ tasks[t].kind = "send"
    /\ LET r == tasks[t] IN
       \E x \in FanTargets(r) :
         /\ emitted' = Failed(emitted, r.sid)
         /\ tasks' = SetTask(t, Idle)
         /\ hist' = Aborted(IF r.pc = "confirmed"
                            THEN Checked(hist, r.mid, connected_users[r.rcpt]) ELSE hist, r)
         /\ faults' = faults \cup {Fault("emit", r.mid, x, r.rcpt)}
    /\ UNCHANGED <<sess, connected_users, session_users, db, refused, ignored, rest>>

\* The message whose status task t is about to update, 0 if its next step is no update.
UpdateDue(r) ==
    IF r.kind # "send" THEN 0
    ELSE IF r.pc = "confirmed" /\ Route(connected_users, r.rcpt) = "bot" THEN r.mid
    ELSE IF r.pc = "fanout"
            /\ \E o \in IterOutcomes(r.it, SetOf(connected_users, r.rcpt)) : o.res = "stop" THEN r.mid
    ELSE IF r.pc = "notified" THEN r.mid
    ELSE IF r.pc = "bot_fanout"
            /\ \E o \in IterOutcomes(r.it, SetOf(connected_users, r.user)) : o.res = "stop" THEN r.bot_mid
    ELSE 0

\* send_message: an update_one of a status raises.
SendUpdateFails(t) ==
    /\ CanFail
    /\ UpdateDue(tasks[t]) # 0
    /\ LET r == tasks[t] IN
       /\ emitted' = Failed(emitted, r.sid)
       /\ tasks' = SetTask(t, Idle)
       /\ hist' = Aborted(IF r.pc = "confirmed" THEN Checked(hist, r.mid, {}) ELSE hist, r)
       /\ faults' = faults \cup {Fault("update", UpdateDue(r), r.sid, r.rcpt)}
    /\ UNCHANGED <<sess, connected_users, session_users, db, refused, ignored, rest>>

\* connect: the emit of connected raises after the session has been registered;
\* the handler returns False and the server refuses the connection (it calls
\* no disconnect handler for a connection it refused).
ConnectEmitFails(s, tok) ==
    /\ CanFail
    /\ sess[s] = "fresh"
    /\ \A x \in Sids : x < s => sess[x] # "fresh"
    /\ sess' = [sess EXCEPT ![s] = "closed"]
    /\ session_users' = Put(session_users, s, tok)
    /\ connected_users' = RegAdd(connected_users, tok, s)
    /\ faults' = faults \cup {Fault("connected", 0, s, tok)}
    /\ UNCHANGED <<db, emitted, tasks, hist, refused, ignored, rest>>

\* The handlers under failures: the clients connect, disconnect and send.
NextFaults ==
    \/ \E s \in Sids, tok \in Users \cup {BadToken} : Connect(s, tok)
    \/ \E s \in Sids : Disconnect(s)
    \/ \E t \in TaskIds, s \in Sids, data \in Payloads : SendStart(t, s, data)
    \/ \E t \in TaskIds : SendConfirm(t)
    \/ \E t \in TaskIds : SendRoute(t)
    \/ \E t \in TaskIds : SendFanNext(t)
    \/ \E t \in TaskIds : SendNotifyDelivered(t)
    \/ \E t \in TaskIds : SendBotRead(t)
    \/ \E t \in TaskIds : SendBotReadNotify(t)
    \/ \E t \in TaskIds : SendBotInsert(t)
    \/ \E t \in TaskIds : SendBotRoute(t)
    \/ \E t \in TaskIds : SendBotFanNext(t)
    \/ \E s \in Sids, data \in Payloads : SendInsertFails(s, data)
    \/ \E t \in TaskIds : SendFanEmitFails(t)
    \/ \E t \in TaskIds : SendUpdateFails(t)
    \/ \E s \in Sids, tok \in Users : ConnectEmitFails(s, tok)

SpecFaults == Init /\ [][NextFaults]_vars

\* ------------------------------------------------------------------ typing
\* typing(sid, data): user_typing goes to every session of the recipient; the
\* event carries the sender (arg).  A call without a session or without a
\* recipient, or for a recipient who is not online, returns before any await.
UserTyping(sender) == Event("user_typing", 0, None, sender)

TypingCount ==
    Cardinality(UNION {{<<s, i>> : i \in {j \in 1..Len(emitted[s]) : emitted[s][j].ev = "user_typing"}}
                       : s \in Sids})

TypingStart(t, s, rcpt) ==
    /\ FreeSlot(t)
    /\ TypingCount < MaxTyping
    /\ s \in DOMAIN session_users
    /\ rcpt \in DOMAIN connected_users
    /\ LET u == session_users[s]
           set == connected_users[rcpt] IN
       \E x \in set :
         /\ emitted' = Emit(emitted, x, UserTyping(u))
         /\ tasks' = SetTask(t, [Idle EXCEPT !.kind = "typing", !.pc = "typing_fanout", !.sid = s,
                                   !.user = u, !.rcpt = rcpt,
                                   !.it = [IterNew(rcpt, set) EXCEPT !.ahead = set \ {x}]])
    /\ UNCHANGED <<sess, connected_users, session_users, db, hist, refused, faults, ignored, rest>>

TypingFanNext(t) ==
    /\ Running(t, "typing", "typing_fanout")
    /\ LET r == tasks[t] IN
       \E o \in IterOutcomes(r.it, SetOf(connected_users, r.rcpt)) :
         CASE o.res = "yield" ->
                /\ emitted' = Emit(emitted, o.sid, UserTyping(r.user))
                /\ tasks' = SetTask(t, [r EXCEPT !.it = o.it])
           [] o.res = "stop" ->
                /\ tasks' = SetTask(t, Idle)
                /\ UNCHANGED emitted
           [] o.res = "raise" ->
                /\ tasks' = SetTask(t, Idle)
                /\ UNCHANGED emitted
    /\ UNCHANGED <<sess, connected_users, session_users, db, hist, refused, faults, ignored, rest>>

\* ------------------------------------------------ events without a session
\* An event handled for a session id that is not in session_users: the id of a
\* connection that was refused or that has disconnected.
Unbound(s) == sess[s] = "closed" /\ s \notin DOMAIN session_users

\* What the handler of event name emits for such a session id: send_message an
\* error to that session, mark_as_read and typing nothing.
RejectedToAll(em, s, name) == EmitBroadcast(em, s, Event("error", 0, None, "Unauthorized"))

Rejected(em, s, name) ==
    IF name = "send_message" THEN Emit(em, s, Event("error", 0, None, "Unauthorized")) ELSE em

EventNames == {"send_message", "mark_as_read", "typing"}

Ignore(s, name) ==
    /\ Unbound(s)
    /\ <<name, s>> \notin ignored
    /\ Cardinality(ignored) < MaxIgnored
    /\ emitted' = Rejected(emitted, s, name)
    /\ ignored' = ignored \cup {<<name, s>>}
    /\ UNCHANGED <<sess, connected_users, session_users, db, tasks, hist, refused, faults, rest>>

\* The content of a message may be the empty string.
Empty == ""

CallPayloads == [recipient : Users, content : Contents \cup {Empty}]

\* The handlers with typing and with events from sessions without identity: the
\* clients connect, disconnect, send to one another and signal typing.
NextCalls ==
    \/ \E s \in Sids, tok \in Users \cup {BadToken} : Connect(s, tok)
    \/ \E s \in Sids : Disconnect(s)
    \/ \E t \in TaskIds, s \in DOMAIN session_users, data \in CallPayloads : SendStart(t, s, data)
    \/ \E t \in TaskIds : SendConfirm(t)
    \/ \E t \in TaskIds : SendRoute(t)
    \/ \E t \in TaskIds : SendFanNext(t)
    \/ \E t \in TaskIds : SendNotifyDelivered(t)
    \/ \E t \in TaskIds, s \in Sids, rcpt \in Users : TypingStart(t, s, rcpt)
    \/ \E t \in TaskIds : TypingFanNext(t)
    \/ \E s \in Sids, name \in EventNames : Ignore(s, name)

SpecCalls == Init /\ [][NextCalls]_vars

\* ------------------------------------------------------------------ presence
\* get_online_status(sid, data): the answer goes to the asking session id, with
\* the email asked for (arg) and is_online (status: online or offline).  The
\* handler looks at the payload and at connected_users only.
IsOnlineAlways(cu, email) == TRUE

IsOnline(cu, email) == email \in DOMAIN cu

OnlineStatus(email, is_online) ==
    Event("online_status", 0, IF is_online THEN "online" ELSE "offline", email)

QueryCount ==
    Cardinality(UNION {{<<s, i>> : i \in {j \in 1..Len(emitted[s]) : emitted[s][j].ev = "online_status"}}
                       : s \in Sids})

GetOnlineStatus(s, email) ==
    /\ sess[s] # "fresh"
    /\ QueryCount < MaxQueries
    /\ emitted' = Emit(emitted, s, OnlineStatus(email, IsOnline(connected_users, email)))
    /\ UNCHANGED <<sess, connected_users, session_users, db, tasks, hist, refused, faults, ignored, rest>>

\* The registry and the presence queries: the clients connect, disconnect, send
\* to one another and ask who is online; a session id may be disconnected twice.
NextPresence ==
    \/ \E s \in Sids, tok \in Users \cup {BadToken} : Connect(s, tok)
    \/ \E s \in Sids : Disconnect(s)
    \/ \E s \in Sids : Ignore(s, "disconnect")
    \/ \E s \in Sids, email \in Users : GetOnlineStatus(s, email)
    \/ \E t \in TaskIds, s \in DOMAIN session_users, data \in CallPayloads : SendStart(t, s, data)
    \/ \E t \in TaskIds : SendConfirm(t)
    \/ \E t \in TaskIds : SendRoute(t)
    \/ \E t \in TaskIds : SendFanNext(t)
    \/ \E t \in TaskIds : SendNotifyDelivered(t)

SpecPresence == Init /\ [][NextPresence]_vars

\* ---------------------------------------------------------------- progress
\* A send_message invocation that has stored its message is suspended in an
\* awaited call of the store or of the transport; HandlerStep(t) is its
\* resumption from whichever call that is.
HandlerStep(t) ==
    \/ SendConfirm(t)
    \/ SendRoute(t)
    \/ SendFanNext(t)
    \/ SendNotifyDelivered(t)
    \/ SendBotRead(t)
    \/ SendBotReadNotify(t)
    \/ SendBotInsert(t)
    \/ SendBotRoute(t)
    \/ SendBotFanNext(t)

\* The send handlers with a store whose insert may fail: the clients connect,
\* disconnect and send.
NextLive ==
    \/ \E s \in Sids, tok \in Users \cup {BadToken} : Connect(s, tok)
    \/ \E s \in Sids : Disconnect(s)
    \/ \E t \in TaskIds, s \in Sids, data \in Payloads : SendStart(t, s, data)
    \/ \E s \in Sids, data \in Payloads : SendInsertFails(s, data)
    \/ \E t \in TaskIds : HandlerStep(t)

\* The store and the transport answer every call: an awaited call returns, and
\* the event loop resumes the handler that waits for it.
SpecLive == Init /\ [][NextLive]_vars /\ \A t \in TaskIds : WF_vars(HandlerStep(t))

\* ---------------------------------------------------------- the REST routes
\* routes/messages.py reads and writes the same messages collection.  The
\* caller of a route is the user of the access token (current_user); no
\* session is needed.
Statuses == {"Sent", "Delivered", "Read"}

Call(op, user, contact, mid, status) ==
    [op |-> op, user |-> user, contact |-> contact, mid |-> mid, status |-> status]

\* update_message (PATCH /api/messages/{message_id}): the message is read and
\* the caller must be its recipient, otherwise the route answers 404 or 403.
UpdateAllowed(d, mid, user) == mid \in 1..Len(d) /\ d[mid].recipient = user

\* update_data of update_message: the fields of MessageUpdate that the request
\* has set, written by update_one({"_id": id}, {"$set": update_data}).  A
\* request that sets no status (None) writes nothing.
Updated(d, mid, st) == IF st = None THEN d ELSE SetStatus(d, mid, st)

\* The existence of the message and its recipient are decided by fields that
\* no operation changes, so the call is taken where its update_one runs.
UpdateMessage(u, mid, st) ==
    /\ Len(rest) < MaxRest
    /\ db' = IF UpdateAllowed(db, mid, u) THEN Updated(db, mid, st) ELSE db
    /\ rest' = Append(rest, Call("update_message", u, None, mid, st))
    /\ UNCHANGED <<sess, connected_users, session_users, emitted, tasks, hist, refused,
                   faults, ignored>>

\* get_messages (GET /api/messages/?contact_email=...): after reading the
\* conversation the route runs update_many over the messages of the contact to
\* the caller whose status is Sent.
FetchMatchesAnyStatus(d, m, user, contact) ==
    d[m].sender = contact /\ d[m].recipient = user

FetchMatches(d, m, user, contact) ==
    d[m].sender = contact /\ d[m].recipient = user /\ d[m].status = "Sent"

Fetched(d, user, contact) ==
    [m \in 1..Len(d) |-> IF FetchMatches(d, m, user, contact)
                         THEN [d[m] EXCEPT !.status = "Delivered"] ELSE d[m]]

GetMessages(u, c) ==
    /\ Len(rest) < MaxRest
    /\ db' = Fetched(db, u, c)
    /\ rest' = Append(rest, Call("get_messages", u, c, 0, None))
    /\ UNCHANGED <<sess, connected_users, session_users, emitted, tasks, hist, refused,
                   faults, ignored>>

SendPayloads == [recipient : Users \cup {BOT_EMAIL}, content : Contents]

\* The socket handlers of send_message next to the REST routes: the clients
\* connect, disconnect and send, and the users fetch their conversations and
\* patch the status of messages.
NextRest ==
    \/ \E s \in Sids, tok \in Users : Connect(s, tok)
    \/ \E s \in Sids : Disconnect(s)
    \/ \E t \in TaskIds, s \in DOMAIN session_users, data \in SendPayloads : SendStart(t, s, data)
    \/ \E t \in TaskIds : SendConfirm(t)
    \/ \E t \in TaskIds : SendRoute(t)
    \/ \E t \in TaskIds : SendFanNext(t)
    \/ \E t \in TaskIds : SendNotifyDelivered(t)
    \/ \E t \in TaskIds : SendBotRead(t)
    \/ \E t \in TaskIds : SendBotReadNotify(t)
    \/ \E t \in TaskIds : SendBotInsert(t)
    \/ \E t \in TaskIds : SendBotRoute(t)
    \/ \E t \in TaskIds : SendBotFanNext(t)
    \/ \E u \in Users, mid \in 1..Len(db), st \in Statuses \cup {None} : UpdateMessage(u, mid, st)
    \/ \E u \in Users, c \in Users \cup {BOT_EMAIL} : GetMessages(u, c)

SpecRest == Init /\ [][NextRest]_vars

\* ================================================================== claims
Mids == 1..Len(db)

\* The positions of the events named ev for message mid in what was emitted to s.
OccIn(em, s, ev, mid) ==
    {i \in 1..Len(em[s]) : em[s][i].ev = ev /\ em[s][i].mid = mid}

Occ(s, ev, mid) == OccIn(emitted, s, ev, mid)

Count(s, ev, mid) == Cardinality(Occ(s, ev, mid))

\* The events a step has added to what was emitted to s.
Added(s) == {i \in 1..Len(emitted'[s]) : i > Len(emitted[s])}

\* C1: in every interleaving of send_message and mark_as_read the persisted
\* status of a message never moves backward (Sent < Delivered < Read).
C1_StatusNeverMovesBackward ==
    [][\A m \in Mids : Rank(db'[m].status) >= Rank(db[m].status)]_vars

\* C2: no session is sent the message_read of a message before the
\* message_delivered of the same message.
C2_ReadNeverBeforeDelivered ==
    \A s \in Sids : \A m \in Mids :
        \A i \in Occ(s, "message_read", m) : \A j \in Occ(s, "message_delivered", m) : j < i

\* C3: an identity is a key of connected_users exactly when it has a registered
\* session, and no key maps to an empty set.
C3_KeyIffNonEmpty ==
    /\ \A u \in DOMAIN connected_users : connected_users[u] # {}
    /\ \A u \in Users :
         u \in DOMAIN connected_users
           <=> \E s \in DOMAIN session_users : session_users[s] = u

\* A user has connected and disconnected while the other one is still online.
C3_Witness ==
    \E s \in Sids :
        /\ sess[s] = "closed"
        /\ emitted[s] # <<>>
        /\ emitted[s][1].ev = "connected"
        /\ emitted[s][1].arg \notin DOMAIN connected_users
        /\ DOMAIN connected_users # {}

\* The events that report on the delivery of a message.
DeliveryEvents == {"message_sent", "new_message", "message_delivered", "message_read"}

\* C4: an accepted send_message stores exactly one new message, with status
\* Sent, the sender of the session and the recipient of the payload; it does so
\* before it emits anything, and every event it emits afterwards carries the id
\* the insert gave (the reply's id for the new_message of the bot's reply).
C4_PersistOnceBeforeEmit ==
    [][ /\ \A t \in TaskIds : tasks[t] = Idle /\ tasks'[t].kind = "send" =>
             /\ Len(db') = Len(db) + 1
             /\ tasks'[t].mid = Len(db')
             /\ db'[Len(db')].status = "Sent"
             /\ db'[Len(db')].sender = session_users[tasks'[t].sid]
             /\ db'[Len(db')].recipient = tasks'[t].rcpt
             /\ ~db'[Len(db')].is_bot_response
             /\ emitted' = emitted
        /\ \A t \in TaskIds : tasks[t].kind = "send" /\ tasks'[t].kind = "send" =>
             tasks'[t].mid = tasks[t].mid
        /\ Len(db') # Len(db) =>
             /\ Len(db') = Len(db) + 1
             /\ \/ db'[Len(db')].is_bot_response
                \/ \E t \in TaskIds : tasks[t] = Idle /\ tasks'[t].kind = "send"
        /\ \A t \in TaskIds : tasks[t].kind = "send" /\ tasks'[t] # tasks[t] =>
             \A s \in Sids : \A i \in Added(s) :
                LET e == emitted'[s][i] IN
                e.ev \in DeliveryEvents =>
                   /\ e.mid \in 1..Len(db)
                   /\ e.mid = IF e.ev = "new_message" /\ tasks[t].bot_mid # 0
                              THEN tasks[t].bot_mid ELSE tasks[t].mid
      ]_vars

\* A stored message has been confirmed to its sender and fanned out.
C4_Witness ==
    \E m \in Mids : \E s, x \in Sids :
        /\ Count(s, "message_sent", m) = 1
        /\ Count(x, "new_message", m) = 1
        /\ ~db[m].is_bot_response

\* C5: if the recipient has sessions at the liveness check, then once
\* send_message has returned new_message has been emitted exactly once to each
\* of them and to no other session, and the message is stored as Delivered.
C5_FanOutOnceAndDelivered ==
    \A m \in Mids :
        ~db[m].is_bot_response /\ hist[m].checked /\ hist[m].snap # {}
        /\ hist[m].outcome # "running"
        => /\ \A s \in Sids : Count(s, "new_message", m) = IF s \in hist[m].snap THEN 1 ELSE 0
           /\ db[m].status # "Sent"

\* C6: a message whose recipient, not the bot, had no session at the liveness
\* check is never emitted as new_message nor reported by message_delivered, and
\* it stays Sent whatever connects later (until its recipient marks it read).
C6_OfflineStaysSent ==
    \A m \in Mids :
        ~db[m].is_bot_response /\ hist[m].checked /\ hist[m].snap = {}
        /\ db[m].recipient # BOT_EMAIL
        => /\ \A s \in Sids : Count(s, "new_message", m) = 0 /\ Count(s, "message_delivered", m) = 0
           /\ db[m].status = IF hist[m].marks = 0 THEN "Sent" ELSE "Read"

\* The recipient of such a message has connected after the send returned.
C6_Witness ==
    \E m \in Mids :
        /\ ~db[m].is_bot_response /\ hist[m].checked /\ hist[m].snap = {}
        /\ db[m].recipient # BOT_EMAIL
        /\ hist[m].outcome = "done"
        /\ db[m].recipient \in DOMAIN connected_users
        /\ db[m].status = "Sent"

\* C7: a mark_as_read for a message that does not exist or whose recipient is
\* not the caller changes no stored message and emits nothing; whoever modifies
\* a message by mark_as_read, and whoever a message_read names as reader, is the
\* recipient of the message.
C7_MarkByNonRecipientIsNoOp ==
    [][ /\ refused' # refused =>
             db' = db /\ emitted' = emitted /\ tasks' = tasks /\ hist' = hist
        /\ \A t \in TaskIds : tasks'[t].kind = "mark" =>
             /\ tasks'[t].mid \in 1..Len(db')
             /\ db'[tasks'[t].mid].recipient = tasks'[t].user
        /\ \A s \in Sids : \A i \in Added(s) :
             LET e == emitted'[s][i] IN
             e.ev = "message_read" /\ e.arg # None => db'[e.mid].recipient = e.arg
      ]_vars

\* The sender of a message, who is online, has called mark_as_read for it.
C7_Witness ==
    \E p \in refused :
        /\ p[2] \in Mids
        /\ db[p[2]].recipient # p[1]
        /\ db[p[2]].sender = p[1]
        /\ p[1] \in DOMAIN connected_users

\* C8: once a mark_as_read of the recipient has set a message to Read, no
\* further mark_as_read for it modifies it or emits another message_read.
C8_MarkIdempotent ==
    \A m \in Mids :
        /\ hist[m].marks <= 1
        /\ \A s \in Sids :
             Cardinality({i \in Occ(s, "message_read", m) : emitted[s][i].arg # None}) <= 1

\* What holds of the messages to the bot and of its replies.
BotReplies(d, h) ==
    \A m \in 1..Len(d) :
        /\ d[m].recipient = BOT_EMAIL /\ h[m].outcome # "running" =>
             d[m].status = "Read" /\ h[m].reply # 0
        /\ h[m].reply # 0 =>
             /\ d[m].recipient = BOT_EMAIL
             /\ d[m].status = "Read"
             /\ h[m].reply \in 1..Len(d)
             /\ d[h[m].reply].sender = BOT_EMAIL
             /\ d[h[m].reply].recipient = d[m].sender
             /\ d[h[m].reply].is_bot_response
        /\ d[m].is_bot_response => Cardinality({o \in 1..Len(d) : h[o].reply = m}) = 1
        /\ d[m].recipient # BOT_EMAIL => h[m].reply = 0

\* C9: a message to the bot goes Sent, Delivered, Read in this order, one step
\* at a time, and ends Read with exactly one reply, from the bot to its sender
\* and flagged as the bot's; a message to anyone else gets no reply.
C9_BotSendReadAndOneReply ==
    [][ /\ \A m \in Mids : db[m].recipient = BOT_EMAIL =>
             Rank(db'[m].status) \in {Rank(db[m].status), Rank(db[m].status) + 1}
        /\ BotReplies(db', hist')
      ]_vars

\* A send to the bot has returned.
C9_Witness ==
    \E m \in Mids :
        /\ db[m].recipient = BOT_EMAIL
        /\ hist[m].outcome = "done"
        /\ hist[m].reply # 0
        /\ db[m].status = "Read"

\* C10: the bot's reply is stored as Sent; if its recipient has sessions when the
\* reply is sent, it is emitted to each of them and its status then advances as
\* the original's did, through Delivered to Read; otherwise it is not emitted
\* and stays Sent. (A mark_as_read of its recipient may set it to Read at any
\* time; the steps constrained here are those of send_message.)
C10_ReplyAdvancesLikeOriginal ==
    [][ /\ \A m \in Mids : db[m].is_bot_response /\ hist'[m].marks = hist[m].marks =>
             Rank(db'[m].status) \in {Rank(db[m].status), Rank(db[m].status) + 1}
        /\ Len(db') > Len(db) /\ db'[Len(db')].is_bot_response => db'[Len(db')].status = "Sent"
        /\ \A m \in 1..Len(db') :
             db'[m].is_bot_response /\ hist'[m].outcome # "running" =>
                IF hist'[m].snap # {}
                THEN /\ \A s \in hist'[m].snap : OccIn(emitted', s, "new_message", m) # {}
                     /\ db'[m].status = "Read"
                ELSE /\ \A s \in Sids : OccIn(emitted', s, "new_message", m) = {}
                     /\ db'[m].status = IF hist'[m].marks = 0 THEN "Sent" ELSE "Read"
      ]_vars

\* The delivery events emitted to s about the messages ids, in order, each as
\* <<event, message id>>.
About(s, ids) ==
    LET T(e) == e.ev \in DeliveryEvents /\ e.mid \in ids
        f == SelectSeq(emitted[s], T) IN
    [i \in 1..Len(f) |-> <<f[i].ev, f[i].mid>>]

IsPrefix(p, q) == Len(p) <= Len(q) /\ \A i \in 1..Len(p) : p[i] = q[i]

\* What the session that sends message m to the bot is to receive, r the reply.
BotOrder(m, r) ==
    <<<<"message_sent", m>>, <<"message_delivered", m>>, <<"message_read", m>>,
      <<"new_message", r>>>>

\* C11: the session that sent a message to the bot receives message_sent, then
\* message_delivered, then message_read for it, then the new_message of the
\* reply, in this order and nothing else about the two messages; once the send
\* has returned without failure it has received the first three, and the
\* fourth too if it is still connected.
C11_BotEventsInOrder ==
    \A m \in Mids : db[m].recipient = BOT_EMAIL =>
        \A s \in Sids : Count(s, "message_sent", m) = 1 =>
            LET r == hist[m].reply
                seq == About(s, {m} \cup (IF r # 0 THEN {r} ELSE {})) IN
            /\ IsPrefix(seq, BotOrder(m, r))
            /\ hist[m].outcome = "done" =>
                  /\ Len(seq) >= 3
                  /\ sess[s] = "open" => seq = BotOrder(m, r)

\* A send to the bot has returned and its session has the four events.
C11_Witness ==
    \E m \in Mids : \E s \in Sids :
        /\ db[m].recipient = BOT_EMAIL
        /\ hist[m].outcome = "done"
        /\ hist[m].reply # 0
        /\ About(s, {m, hist[m].reply}) = BotOrder(m, hist[m].reply)

\* C12: when a user with two sessions sends to an offline user who is not the
\* bot, the message_sent is emitted once to each session the sender has, the
\* message is stored as Sent and nothing is emitted to a session of the
\* recipient.
C12_SentToEverySessionOfSender ==
    [][ \A s \in Sids : \A i \in Added(s) :
          LET e == emitted'[s][i] IN
          e.ev = "message_sent" /\ db[e.mid].recipient \notin DOMAIN connected_users \cup {BOT_EMAIL} =>
             /\ \A x \in SetOf(connected_users, db[e.mid].sender) :
                   Cardinality(OccIn(emitted', x, "message_sent", e.mid)) = 1
             /\ db'[e.mid].status = "Sent"
             /\ \A x \in Sids : x # s => emitted'[x] = emitted[x]
      ]_vars

\* C13: the message_sent of a send_message is emitted once, to the session that
\* issued the send and to no other session.
C13_SentToSendingSessionOnly ==
    [][ /\ \A s \in Sids : \A i \in Added(s) :
             LET e == emitted'[s][i] IN
             e.ev = "message_sent" =>
                \E t \in TaskIds :
                   /\ Running(t, "send", "inserted") /\ tasks'[t].pc = "confirmed"
                   /\ tasks[t].mid = e.mid /\ tasks[t].sid = s
                   /\ \A x \in Sids : Cardinality(OccIn(emitted', x, "message_sent", e.mid))
                                        = IF x = s THEN 1 ELSE 0
        /\ \A t \in TaskIds : Running(t, "send", "inserted") /\ tasks'[t].pc = "confirmed" =>
             Cardinality(OccIn(emitted', tasks[t].sid, "message_sent", tasks[t].mid)) = 1
        /\ \A s \in Sids : \A m \in Mids :
             Cardinality(OccIn(emitted', s, "message_sent", m)) >= Count(s, "message_sent", m)
      ]_vars

\* The sender has two sessions; one has the message_sent, the other has not.
C13_Witness ==
    \E m \in Mids : \E s, x \in Sids :
        /\ s # x
        /\ {s, x} \subseteq SetOf(connected_users, db[m].sender)
        /\ hist[m].outcome = "done"
        /\ Count(s, "message_sent", m) = 1
        /\ Count(x, "message_sent", m) = 0

\* The sessions that have been sent the message_sent of m: the one that sent it.
SenderSessions(m) == {s \in Sids : Count(s, "message_sent", m) > 0}

\* C14: if the emit of new_message to one session of the recipient fails, the
\* recipient's other sessions still each receive new_message, the message is
\* still stored as Delivered and its sender still receives message_delivered.
C14_EmitFailureIsIsolated ==
    \A f \in faults :
        f.op = "emit" /\ Cardinality(hist[f.mid].snap) >= 2 /\ hist[f.mid].outcome # "running" =>
           /\ \A s \in (hist[f.mid].snap \cap SetOf(connected_users, f.rcpt)) \ {f.sid} :
                 Count(s, "new_message", f.mid) = 1
           /\ db[f.mid].status = "Delivered"
           /\ \A s \in SenderSessions(f.mid) : Count(s, "message_delivered", f.mid) = 1

\* C15: if the insert of the message fails, send_message stores nothing, emits
\* exactly one event, an error to the sending session, and is over: no
\* message_sent, new_message, message_delivered or message_read follows and no
\* reply is made.
C15_InsertFailureAborts ==
    [][ \A f \in faults' \ faults : f.op = "insert" =>
          /\ db' = db /\ hist' = hist /\ tasks' = tasks
          /\ \A x \in Sids : x # f.sid => emitted'[x] = emitted[x]
          /\ Len(emitted'[f.sid]) = Len(emitted[f.sid]) + 1
          /\ SubSeq(emitted'[f.sid], 1, Len(emitted[f.sid])) = emitted[f.sid]
          /\ emitted'[f.sid][Len(emitted'[f.sid])].ev = "error"
      ]_vars

\* The insert of a message to the bot has failed: its sender has the error and
\* the store is empty.
C15_Witness ==
    \E f \in faults :
        /\ f.op = "insert"
        /\ f.rcpt = BOT_EMAIL
        /\ db = <<>>
        /\ \E i \in 1..Len(emitted[f.sid]) : emitted[f.sid][i].ev = "error"
        /\ \A t \in TaskIds : tasks[t] = Idle

\* No handler that works on message m is running.
Quiet(m) ==
    /\ hist[m].outcome # "running"
    /\ \A t \in TaskIds : tasks[t].mid # m /\ tasks[t].bot_mid # m

\* C16: once the handlers have finished, a message for which an event carrying
\* the status Delivered or Read has been emitted is stored with at least that
\* status, even when a status update has failed.
C16_NoEventForUnpersistedStatus ==
    \A m \in Mids : Quiet(m) =>
        \A s \in Sids : \A i \in 1..Len(emitted[s]) :
            LET e == emitted[s][i] IN
            e.mid = m /\ e.ev \in {"new_message", "message_delivered", "message_read"}
            => Rank(db[m].status) >= Rank(e.status)

\* The connect of session s has returned False.
Refused(s) ==
    /\ sess[s] = "closed"
    /\ \A i \in 1..Len(emitted[s]) : emitted[s][i].ev # "connected"

\* C19: a session id whose connect was refused is neither in session_users nor
\* in a set of connected_users; only accepted sessions are registered.
C19_RefusedIsNotRegistered ==
    \A s \in Sids : Refused(s) =>
        /\ s \notin DOMAIN session_users
        /\ \A u \in DOMAIN connected_users : s \notin connected_users[u]

\* C17: a fan-out works on a snapshot of the session set: a connect or a
\* disconnect of the identity while the fan-out is suspended in an emit never
\* makes its next step fail, and a finished fan-out of a message has not failed
\* and has reached exactly the sessions of the liveness check that are still
\* registered.
C17_FanOutOverSnapshot ==
    /\ \A t \in TaskIds : tasks[t].it.of # None =>
          \A o \in IterOutcomes(tasks[t].it, SetOf(connected_users, tasks[t].it.of)) :
             o.res # "raise"
    /\ \A m \in Mids : hist[m].checked /\ hist[m].snap # {} /\ hist[m].outcome # "running" =>
          /\ hist[m].outcome = "done"
          /\ \A s \in hist[m].snap \cap SetOf(connected_users, db[m].recipient) :
                Count(s, "new_message", m) = 1
          /\ \A s \in Sids \ hist[m].snap : Count(s, "new_message", m) = 0

\* C18: a send_message with empty content stores no message (and so emits no
\* message_sent, new_message or message_delivered for one).
C18_EmptyContentRejected ==
    /\ \A m \in Mids : db[m].content # Empty
    /\ \A t \in TaskIds : tasks[t].kind = "send" => db[tasks[t].mid].content # Empty

\* C20: an event from a session id that is bound to no identity persists no
\* message, changes no status, leaves the registry alone, starts nothing and
\* emits nothing to any session other than the one it came from.
C20_UnboundSessionNoSideEffect ==
    [][ \A c \in ignored' \ ignored :
          /\ db' = db /\ hist' = hist /\ tasks' = tasks
          /\ connected_users' = connected_users /\ session_users' = session_users
          /\ \A x \in Sids : x # c[2] => emitted'[x] = emitted[x]
          /\ c[1] # "send_message" => emitted' = emitted
      ]_vars

\* A session that has disconnected has sent a send_message while a delivered
\* message is stored and its owner is online again.
C20_Witness ==
    \E c \in ignored :
        /\ c[1] = "send_message"
        /\ \E i \in 1..Len(emitted[c[2]]) : emitted[c[2]][i].arg = "Unauthorized"
        /\ \E m \in Mids : db[m].status = "Delivered"
        /\ DOMAIN connected_users = Users

\* C21: a presence query is answered only for a session id that is in
\* session_users; one from any other session id gets no online_status.
C21_PresenceQueryNeedsSession ==
    [][ \A s \in Sids : \A i \in Added(s) :
          emitted'[s][i].ev = "online_status" => s \in DOMAIN session_users
      ]_vars

\* The identities that have a session in session_users.
Bound(su) == {su[x] : x \in DOMAIN su}

\* C22: disconnect(sid) removes sid from session_users and from the set of its
\* identity and leaves every other session where it is; the identity stays a
\* key exactly when it has another session left; a disconnect of a session id
\* that is not registered changes nothing.
C22_DisconnectRemovesSession ==
    [][ /\ \A s \in Sids : sess[s] = "open" /\ sess'[s] = "closed" =>
             LET u == session_users[s] IN
             /\ s \in connected_users[u]
             /\ session_users' = [x \in DOMAIN session_users \ {s} |-> session_users[x]]
             /\ \A v \in DOMAIN connected_users' : s \notin connected_users'[v]
             /\ u \in DOMAIN connected_users' <=> connected_users[u] # {s}
             /\ u \in DOMAIN connected_users' => connected_users'[u] = connected_users[u] \ {s}
             /\ \A v \in DOMAIN connected_users \ {u} :
                   v \in DOMAIN connected_users' /\ connected_users'[v] = connected_users[v]
             /\ DOMAIN connected_users' \subseteq DOMAIN connected_users
        /\ \A c \in ignored' \ ignored : c[1] = "disconnect" =>
             /\ connected_users' = connected_users /\ session_users' = session_users
             /\ db' = db /\ emitted' = emitted /\ tasks' = tasks
      ]_vars

\* One of an identity's two sessions has disconnected and the identity is still
\* online with the other; a session id has been disconnected a second time.
C22_Witness ==
    \E s, x \in Sids :
        /\ <<"disconnect", s>> \in ignored
        /\ emitted[s] # <<>> /\ emitted[s][1].ev = "connected"
        /\ x \in DOMAIN session_users
        /\ session_users[x] = emitted[s][1].arg
        /\ connected_users[session_users[x]] = {x}

\* C28: get_online_status emits one online_status, to the asking session only,
\* whose is_online says whether the identity asked for has a registered session
\* at that moment, and changes neither the registry nor a stored message.
C28_PresenceAnswer ==
    [][ \A s \in Sids : \A i \in Added(s) :
          LET e == emitted'[s][i] IN
          e.ev = "online_status" =>
             /\ e.status = (IF e.arg \in Bound(session_users) THEN "online" ELSE "offline")
             /\ Len(emitted'[s]) = Len(emitted[s]) + 1
             /\ \A x \in Sids : x # s => emitted'[x] = emitted[x]
             /\ connected_users' = connected_users /\ session_users' = session_users
             /\ db' = db /\ tasks' = tasks
      ]_vars

\* A session has been told that an identity is offline whose session has
\* disconnected, while a message is stored.
C28_Witness ==
    \E s, x \in Sids : \E i \in 1..Len(emitted[s]) :
        /\ emitted[s][i].ev = "online_status"
        /\ emitted[s][i].status = "offline"
        /\ sess[x] = "closed" /\ emitted[x] # <<>> /\ emitted[x][1].arg = emitted[s][i].arg
        /\ s \in DOMAIN session_users
        /\ db # <<>>

\* C23: no two handlers run at the same time for the same session: the handler
\* of one event of a session has returned before the next one starts.
C23_OneHandlerPerSession ==
    \A t, x \in TaskIds :
        t # x /\ tasks[t] # Idle /\ tasks[x] # Idle => tasks[t].sid # tasks[x].sid

\* C24: a send_message whose session has disconnected after the insert, and
\* whose recipient had sessions at the liveness check, still ends with the
\* message stored as Delivered (or Read) and with new_message emitted to every
\* one of those sessions that is still registered.
C24_DisconnectCancelsNothing ==
    [][ \A t \in TaskIds :
          LET r == tasks[t] IN
          /\ r.kind = "send" /\ r.rcpt # BOT_EMAIL /\ tasks'[t] = Idle
          /\ sess[r.sid] = "closed"
          /\ hist'[r.mid].snap # {}
          => /\ db'[r.mid].status # "Sent"
             /\ \A s \in hist'[r.mid].snap \cap SetOf(connected_users, r.rcpt) :
                   OccIn(emitted', s, "new_message", r.mid) # {}
      ]_vars

\* C25: a send_message of an authenticated session without recipient or without
\* content stores nothing, leaves the registry alone and emits one error, to
\* that session only.
C25_MalformedSendOnlyAnError ==
    [][ /\ \A m \in 1..Len(db') : db'[m].recipient # Missing /\ db'[m].content # Missing
        /\ \A s \in Sids : \A i \in Added(s) :
             emitted'[s][i].arg = "Invalid message data" =>
                /\ s \in DOMAIN session_users
                /\ emitted'[s][i].ev = "error"
                /\ Len(emitted'[s]) = Len(emitted[s]) + 1
                /\ \A x \in Sids : x # s => emitted'[x] = emitted[x]
                /\ db' = db /\ hist' = hist /\ tasks' = tasks
                /\ connected_users' = connected_users /\ session_users' = session_users
      ]_vars

\* A malformed send has been refused while the other user is online.
C25_Witness ==
    \E s \in Sids : \E i \in 1..Len(emitted[s]) :
        /\ emitted[s][i].arg = "Invalid message data"
        /\ DOMAIN connected_users = Users
        /\ db = <<>>

\* C26: a send_message that ends with an error to its sender has emitted
\* new_message for its message to no session.
C26_FailedSendReachesNobody ==
    \A m \in Mids :
        ~db[m].is_bot_response /\ hist[m].outcome = "failed" =>
           \A s \in Sids : Count(s, "new_message", m) = 0

\* C27: a typing call to an online recipient ends with user_typing emitted to
\* every session of the recipient that it had to reach and that is still
\* registered, and stores nothing.
C27_TypingReachesEverySession ==
    [][ \A t \in TaskIds :
          tasks[t].kind = "typing" /\ tasks'[t] # tasks[t] =>
             /\ db' = db
             /\ tasks'[t] = Idle =>
                  tasks[t].it.ahead \cap SetOf(connected_users, tasks[t].rcpt) = {}
      ]_vars

\* C29: a mark_as_read that has modified its message ends with message_read
\* emitted to every session of the sender that it had to reach and that is still
\* registered.
C29_ReadReceiptReachesEverySession ==
    [][ \A t \in TaskIds :
          Running(t, "mark", "mark_fanout") /\ tasks'[t] = Idle =>
             tasks[t].it.ahead \cap SetOf(connected_users, db[tasks[t].mid].sender) = {}
      ]_vars

\* C30: the sender of a message stored by send_message is the identity bound
\* to the session that sent it, whatever the payload says, and is never
\* changed afterwards; the events about it go out under that message's id.
C30_SenderIsSessionIdentity ==
    [][ /\ \A m \in 1..Len(db') : m > Len(db) /\ ~db'[m].is_bot_response =>
             \E t \in TaskIds :
                /\ tasks[t] = Idle /\ tasks'[t].mid = m
                /\ tasks'[t].sid \in DOMAIN session_users
                /\ db'[m].sender = session_users[tasks'[t].sid]
                /\ tasks'[t].user = db'[m].sender
        /\ \A m \in Mids : db'[m].sender = db[m].sender
      ]_vars

\* A user has a stored message of their own while the other user is online.
C30_Witness ==
    \E m \in Mids : \E s \in Sids :
        /\ ~db[m].is_bot_response
        /\ Count(s, "message_sent", m) = 1
        /\ s \in DOMAIN session_users /\ session_users[s] = db[m].sender
        /\ Users \ {db[m].sender} \subseteq DOMAIN connected_users

\* The session ids registered in a pair of registry maps.
Registered(cu, su) == DOMAIN su \cup UNION {cu[u] : u \in DOMAIN cu}

\* C31: only a successful connect adds a session to the registry: a session id
\* enters connected_users or session_users only in the step that accepts its
\* connection, the steps of the other handlers leave both maps unchanged, and
\* a disconnect only removes entries.
C31_OnlySuccessfulConnectAdds ==
    [][ /\ \A s \in Registered(connected_users', session_users')
                    \ Registered(connected_users, session_users) :
             sess[s] = "fresh" /\ sess'[s] = "open"
        /\ sess' = sess => connected_users' = connected_users /\ session_users' = session_users
        /\ (\E s \in Sids : sess[s] = "open" /\ sess'[s] = "closed") =>
             /\ DOMAIN session_users' \subseteq DOMAIN session_users
             /\ \A u \in DOMAIN connected_users' :
                  u \in DOMAIN connected_users /\ connected_users'[u] \subseteq connected_users[u]
      ]_vars

\* What a message is apart from its status.
Letter(msg) ==
    [sender |-> msg.sender, recipient |-> msg.recipient, content |-> msg.content,
     is_bot_response |-> msg.is_bot_response]

\* C32: once a message is persisted no socket handler deletes it or changes
\* its identifier, sender, recipient, content or bot flag: a step changes of a
\* stored message its status at most, and the stored messages only grow in
\* number.
C32_StoredMessagesKeepTheirFields ==
    [][ /\ Len(db') >= Len(db)
        /\ \A m \in Mids : Letter(db'[m]) = Letter(db[m])
      ]_vars

\* A user's message to the bot and the bot's reply are both stored and have
\* both gone through their status changes up to Read.
C32_Witness ==
    /\ Len(db) = 2
    /\ db[1].status = "Read" /\ db[1].content \in Contents /\ db[1].recipient = BOT_EMAIL
    /\ db[2].status = "Read" /\ db[2].content = BotResponse /\ db[2].sender = BOT_EMAIL

\* The last REST call is the one this step has made.
Called(op) == Len(rest') = Len(rest) + 1 /\ rest'[Len(rest')].op = op

\* C33: update_message never moves the status of a message backward: a PATCH
\* by the recipient that asks for a status below the persisted one (Sent on a
\* Delivered or Read message, Delivered on a Read message) leaves the
\* persisted status unchanged.
C33_PatchNeverMovesBackward ==
    [][ Called("update_message") =>
          LET c == rest'[Len(rest')] IN
          c.status # None /\ db[c.mid].recipient = c.user
          /\ Rank(c.status) < Rank(db[c.mid].status)
          => db'[c.mid].status = db[c.mid].status
      ]_vars

\* C34: a history fetch, get_messages by user U for contact C, changes status
\* only forward and only in U's own inbox: every message from C to U whose
\* status is Sent becomes Delivered, and every other message (one already
\* Delivered or Read, one sent by U, one of another conversation) is left as
\* it is.
C34_FetchDeliversOwnInboxOnly ==
    [][ Called("get_messages") =>
          LET c == rest'[Len(rest')] IN
          /\ Len(db') = Len(db)
          /\ \A m \in Mids :
               /\ Letter(db'[m]) = Letter(db[m])
               /\ Rank(db'[m].status) >= Rank(db[m].status)
               /\ db'[m].status =
                     IF db[m].sender = c.contact /\ db[m].recipient = c.user
                        /\ db[m].status = "Sent"
                     THEN "Delivered" ELSE db[m].status
      ]_vars

\* A message whose recipient was offline at the liveness check, so that
\* send_message left it Sent, is Delivered after its recipient has fetched the
\* conversation with its sender.
C34_Witness ==
    \E m \in Mids :
        /\ hist[m].checked /\ hist[m].snap = {} /\ hist[m].outcome = "done"
        /\ db[m].recipient \in Users
        /\ db[m].status = "Delivered"
        /\ rest = <<Call("get_messages", db[m].recipient, db[m].sender, 0, None)>>

\* C35: the two registry maps agree in every state another handler can
\* observe: a session id s is in connected_users[u] if and only if
\* session_users[s] = u, so a session id is in the set of one identity at most
\* and no set holds a session id that session_users does not know.
C35_RegistryMapsAgree ==
    /\ \A u \in DOMAIN connected_users : \A s \in connected_users[u] :
          s \in DOMAIN session_users /\ session_users[s] = u
    /\ \A s \in DOMAIN session_users :
          session_users[s] \in DOMAIN connected_users
          /\ s \in connected_users[session_users[s]]
    /\ \A u, v \in DOMAIN connected_users :
          u # v => connected_users[u] \cap connected_users[v] = {}

\* Both users are registered, through sessions 1 and 3, after session 2, a second
\* session of the user of session 1, has connected and disconnected.
C35_Witness ==
    /\ DOMAIN connected_users = Users
    /\ DOMAIN session_users = {1, 3}
    /\ sess[2] = "closed" /\ Len(emitted[2]) > 0 /\ emitted[2][1].ev = "connected"
    /\ emitted[2][1].arg = session_users[1]

\* The events of the given names that a step has emitted to session s.
AddedOf(s, names) == {i \in Added(s) : emitted'[s][i].ev \in names}

\* C36: every send_message invocation from an authenticated session ends with
\* an outcome its sender can see and is never blocked forever: a call that
\* stores no message emits an error to the sending session, a call that has
\* stored its message next emits message_sent (or an error) to the sending
\* session, and an invocation that has not returned eventually returns.
C36_SendTerminatesVisibly ==
    /\ [][ \A s \in DOMAIN session_users :
             (\/ \E t \in TaskIds, data \in Payloads : SendStart(t, s, data)
              \/ \E data \in Payloads : SendInsertFails(s, data))
             /\ Len(db') = Len(db)
             => AddedOf(s, {"error"}) # {}
          ]_vars
    /\ [][ \A t \in TaskIds :
             Running(t, "send", "inserted") /\ tasks'[t] # tasks[t]
             => AddedOf(tasks[t].sid, {"message_sent", "error"}) # {}
          ]_vars
    /\ \A t \in TaskIds : (tasks[t].kind = "send") ~> (tasks[t] = Idle)

\* A send to an online recipient has been confirmed to its sender with
\* message_sent and its handler has returned: no invocation is left running.
C36_Witness ==
    /\ \E m \in Mids : \E s \in Sids :
          /\ hist[m].outcome = "done" /\ hist[m].snap # {}
          /\ Count(s, "message_sent", m) = 1
          /\ \A t \in TaskIds : tasks[t] = Idle
====
